---- MODULE Spec2Model ----
(***************************************************************************)
(* Shape-level model of models/resnet.py: six image classifiers built from *)
(* residual blocks.  A tensor is modelled by its shape, a module by a      *)
(* record of its constructor arguments, and a forward pass by a walk over  *)
(* the modules of nn.Sequential.  The last part models the values flowing  *)
(* through the final projection of a ConvNeXtblock.                        *)
(***************************************************************************)
EXTENDS Integers, Sequences, FiniteSets, TLC

VARIABLES
    net,        \* name of the network under evaluation ("none": a lone block)
    class_num,  \* constructor argument of the network
    entry,      \* "forward" or "extract_features"
    training,   \* nn.Module.training (True after construction, False after eval())
    x0,         \* shape of the input tensor
    x,          \* shape of the current tensor, or Raised
    pc,         \* index in self.seq of the next module to apply
    stage,      \* "seq", "flat", "out", "done" | "new", "built" | "cnb..."
    status,     \* "ok" or "error" (an exception left the call)
    prev,       \* shape that entered the module applied last
    main,       \* main-path operand of the last residual sum (NoShape: none)
    sc,         \* shortcut operand of the last residual sum (NoShape: none)
    args,       \* constructor arguments of the lone block
    blk,        \* the lone block once constructed
    channel,    \* ConvNeXtblock: constructor argument
    weight,     \* ConvNeXtblock: point_wise2.weight[c][k]
    bias,       \* ConvNeXtblock: point_wise2.bias[c]
    trained,    \* ConvNeXtblock: an optimizer step has changed the parameters
    xin,        \* ConvNeXtblock: the input (residual) values of one pixel
    acc,        \* ConvNeXtblock: point_wise2 output accumulated so far
    kk,         \* ConvNeXtblock: hidden channels accumulated so far
    hid,        \* ConvNeXtblock: a nonzero hidden activation has been read
    yout        \* ConvNeXtblock: the returned values of the pixel

netVars == <<net, class_num, entry, training, x0, x, pc, stage, status, prev, main, sc>>
blockVars == <<args, blk>>
cnbVars == <<channel, weight, bias, trained, xin, acc, kk, hid, yout>>
vars == <<net, class_num, entry, training, x0, x, pc, stage, status, prev, main, sc,
          args, blk, channel, weight, bias, trained, xin, acc, kk, hid, yout>>

\* ------------------------------------------------------------------ bounds
MaxBatch == 2
MaxClass == 2
MaxSize == 6
NominalSize == 32
ExtraSizes == {33, 64}
SizeSet == (1..MaxSize) \cup {NominalSize} \cup ExtraSizes

\* ------------------------------------------------------------ tensor shapes
Raised == <<-1>>
NoShape == <<>>
None == 0

\* ------------------------------------------------------------------ modules
Conv2d(in_channels, out_channels, kernel_size, stride, padding, groups) ==
    [op |-> "Conv2d", in_channels |-> in_channels, out_channels |-> out_channels,
     kernel_size |-> kernel_size, stride |-> stride, padding |-> padding,
     groups |-> groups]

BatchNorm2d(num_features) == [op |-> "BatchNorm2d", num_features |-> num_features]

LayerNorm(normalized_shape) == [op |-> "LayerNorm", normalized_shape |-> normalized_shape]

ReLU == [op |-> "ReLU"]

GELU == [op |-> "GELU"]

Permute(dims) == [op |-> "permute", dims |-> dims]

AdaptiveAvgPool2d == [op |-> "AdaptiveAvgPool2d"]

AvgPool2d(kernel_size) == [op |-> "AvgPool2d", kernel_size |-> kernel_size]

Linear(in_features, out_features) ==
    [op |-> "Linear", in_features |-> in_features, out_features |-> out_features]

Identity == [kind |-> "Identity"]

Sequential(layers) == [kind |-> "Sequential", layers |-> layers]

IdentityMap == [kind |-> "_identitymap"]

\* The constructor of nn.Conv2d rejects channel counts the groups do not divide.
Conv2dConstructs(l) ==
    /\ l.groups > 0
    /\ l.in_channels % l.groups = 0
    /\ l.out_channels % l.groups = 0

\* --------------------------------------------------------- primitive forward
ConvSize_NoPadding(h, k, s, p) == ((h - k) \div s) + 1

ConvSize_NoStride(h, k, s, p) == (h + 2 * p - k) + 1

ConvSize(h, k, s, p) == ((h + 2 * p - k) \div s) + 1

Conv2dForward(l, t) ==
    IF \/ t[2] # l.in_channels
       \/ t[3] + 2 * l.padding < l.kernel_size
       \/ t[4] + 2 * l.padding < l.kernel_size
    THEN Raised
    ELSE <<t[1], l.out_channels,
           ConvSize(t[3], l.kernel_size, l.stride, l.padding),
           ConvSize(t[4], l.kernel_size, l.stride, l.padding)>>

\* In training mode batch norm needs more than one value per channel.
BatchNorm2dForward(l, t, train) ==
    IF t[2] # l.num_features \/ (train /\ t[1] * t[3] * t[4] = 1)
    THEN Raised
    ELSE t

LayerNormForward(l, t) ==
    IF t[Len(t)] # l.normalized_shape THEN Raised ELSE t

PermuteForward(l, t) == [i \in 1..Len(t) |-> t[l.dims[i] + 1]]

AvgPoolSize(h, k) == ((h - k) \div k) + 1

AdaptiveAvgPool2dForward_Fixed(t) ==
    <<t[1], t[2], AvgPoolSize(t[3], 4), AvgPoolSize(t[4], 4)>>

AdaptiveAvgPool2dForward(t) == <<t[1], t[2], 1, 1>>

AvgPool2dForward(l, t) ==
    IF t[3] < l.kernel_size \/ t[4] < l.kernel_size
    THEN Raised
    ELSE <<t[1], t[2], AvgPoolSize(t[3], l.kernel_size), AvgPoolSize(t[4], l.kernel_size)>>

RECURSIVE Prod(_, _)
Prod(t, i) == IF i > Len(t) THEN 1 ELSE t[i] * Prod(t, i + 1)

FlattenForward_FromZero(t) == <<Prod(t, 1)>>

FlattenForward(t) == <<t[1], Prod(t, 2)>>

LinearForward(l, t) ==
    IF t[Len(t)] # l.in_features THEN Raised ELSE <<t[1], l.out_features>>

LayerForward(l, t, train) ==
    CASE l.op = "Conv2d" -> Conv2dForward(l, t)
      [] l.op = "BatchNorm2d" -> BatchNorm2dForward(l, t, train)
      [] l.op = "LayerNorm" -> LayerNormForward(l, t)
      [] l.op = "permute" -> PermuteForward(l, t)
      [] l.op = "ReLU" -> t
      [] l.op = "GELU" -> t
      [] l.op = "AdaptiveAvgPool2d" -> AdaptiveAvgPool2dForward(t)
      [] l.op = "AvgPool2d" -> AvgPool2dForward(l, t)

\* nn.Sequential of primitive modules: the first exception ends the call.
RECURSIVE RunSeq(_, _, _, _)
RunSeq(layers, i, t, train) ==
    IF t = Raised \/ i > Len(layers) THEN t
    ELSE RunSeq(layers, i + 1, LayerForward(layers[i], t, train), train)

SliceSize_Floor(h, s) == h \div s

\* x[:, :, ::s, ::s]
SliceSize(h, s) == (h + s - 1) \div s

Slice(t, s) == <<t[1], t[2], SliceSize(t[3], s), SliceSize(t[4], s)>>

\* torch.concat((x, torch.zeros_like(x)), dim=1)
ConcatZeros(t) == <<t[1], 2 * t[2], t[3], t[4]>>

\* a + b with broadcasting: sizes agree, or one of them is 1.
BroadcastDim(a, b) == IF a = b \/ b = 1 THEN a ELSE IF a = 1 THEN b ELSE -1

Add(a, b) ==
    LET r == [i \in 1..4 |-> BroadcastDim(a[i], b[i])]
    IN IF \E i \in 1..4 : r[i] = -1 THEN Raised ELSE r

\* ------------------------------------------------------------------- blocks
ResBlock(in_channel, out_channel, is_downsample) ==
    LET stride == IF is_downsample THEN 2 ELSE 1
    IN [op |-> "ResBlock", in_channel |-> in_channel, out_channel |-> out_channel,
        is_downsample |-> is_downsample, stride |-> stride,
        seq |-> <<Conv2d(in_channel, out_channel, 3, stride, 1, 1),
                  BatchNorm2d(out_channel),
                  ReLU,
                  Conv2d(out_channel, out_channel, 3, 1, 1, 1),
                  BatchNorm2d(out_channel)>>,
        downsample |-> IF is_downsample
                       THEN Sequential(<<Conv2d(in_channel, out_channel, 1, stride, 0, 1),
                                         BatchNorm2d(out_channel)>>)
                       ELSE Identity]

ResBottleNeckBlock(in_channel, out_channel, is_downsample, stride) ==
    LET self_stride == IF stride = None
                       THEN (IF is_downsample THEN 2 ELSE 1)
                       ELSE stride
        mid_channel == out_channel \div 4
    IN [op |-> "ResBottleNeckBlock", in_channel |-> in_channel,
        out_channel |-> out_channel, is_downsample |-> is_downsample,
        stride |-> self_stride,
        seq |-> <<Conv2d(in_channel, mid_channel, 1, 1, 0, 1),
                  BatchNorm2d(mid_channel),
                  ReLU,
                  Conv2d(mid_channel, mid_channel, 3, self_stride, 1, 1),
                  BatchNorm2d(mid_channel),
                  ReLU,
                  Conv2d(mid_channel, out_channel, 1, 1, 0, 1),
                  BatchNorm2d(out_channel)>>,
        downsample |-> IF is_downsample THEN IdentityMap ELSE Identity]

PreActResBlock(in_channel, out_channel, is_downsample) ==
    LET stride == IF is_downsample THEN 2 ELSE 1
    IN [op |-> "PreActResBlock", in_channel |-> in_channel,
        out_channel |-> out_channel, is_downsample |-> is_downsample,
        stride |-> stride,
        seq |-> <<BatchNorm2d(in_channel),
                  ReLU,
                  Conv2d(in_channel, out_channel, 3, stride, 1, 1),
                  BatchNorm2d(out_channel),
                  ReLU,
                  Conv2d(out_channel, out_channel, 3, 1, 1, 1)>>,
        downsample |-> IF is_downsample THEN IdentityMap ELSE Identity]

ResNextBlock(in_channel, inner_channel, out_channel, cardinality, is_downsample, stride) ==
    LET stride_ == IF stride = None
                   THEN (IF is_downsample THEN 2 ELSE 1)
                   ELSE stride
    IN [op |-> "ResNextBlock", in_channel |-> in_channel,
        out_channel |-> out_channel, is_downsample |-> is_downsample,
        stride |-> stride_,
        seq |-> <<Conv2d(in_channel, inner_channel, 1, 1, 0, 1),
                  BatchNorm2d(inner_channel),
                  ReLU,
                  Conv2d(inner_channel, inner_channel, 3, stride_, 1, cardinality),
                  BatchNorm2d(inner_channel),
                  ReLU,
                  Conv2d(inner_channel, out_channel, 1, 1, 0, 1),
                  BatchNorm2d(out_channel)>>,
        downsample |-> IF is_downsample
                       THEN Sequential(<<Conv2d(in_channel, out_channel, 1, stride_, 0, 1),
                                         BatchNorm2d(out_channel)>>)
                       ELSE Identity]

Expansion == 4

\* forward of ConvNeXtblock, as a chain of modules; the residual is the input.
ConvNeXtblock(ch) ==
    [op |-> "ConvNeXtblock", in_channel |-> ch, out_channel |-> ch,
     is_downsample |-> FALSE, stride |-> 1,
     seq |-> <<Conv2d(ch, ch, 7, 1, 3, ch),
               Permute(<<0, 2, 3, 1>>),
               LayerNorm(ch),
               Permute(<<0, 3, 1, 2>>),
               Conv2d(ch, ch * Expansion, 1, 1, 0, 1),
               GELU,
               Conv2d(ch * Expansion, ch, 1, 1, 0, 1)>>,
     downsample |-> Identity]

DefaultCardinality == 32

IsBlock(l) ==
    l.op \in {"ResBlock", "ResBottleNeckBlock", "PreActResBlock", "ResNextBlock",
              "ConvNeXtblock"}

\* Every convolution of the block is one nn.Conv2d accepts at construction.
BlockConstructs(b) ==
    /\ \A i \in 1..Len(b.seq) : b.seq[i].op = "Conv2d" => Conv2dConstructs(b.seq[i])
    /\ b.downsample.kind = "Sequential" =>
          \A i \in 1..Len(b.downsample.layers) :
              b.downsample.layers[i].op = "Conv2d" =>
                  Conv2dConstructs(b.downsample.layers[i])

\* ---------------------------------------------------------------- shortcuts
RECURSIVE ConcatZerosTimes(_, _)
ConcatZerosTimes(t, times) ==
    IF times <= 0 THEN t ELSE ConcatZerosTimes(ConcatZeros(t), times - 1)

\* ResBottleNeckBlock._identitymap
BottleNeckIdentityMap(b, t) ==
    LET dim == b.out_channel \div b.in_channel
    IN ConcatZerosTimes(Slice(t, b.stride), dim \div 2)

\* PreActResBlock._identitymap
PreActIdentityMap(t) == ConcatZeros(Slice(t, 2))

ShortcutForward(b, t, train) ==
    CASE b.downsample.kind = "Identity" -> t
      [] b.downsample.kind = "Sequential" -> RunSeq(b.downsample.layers, 1, t, train)
      [] b.downsample.kind = "_identitymap" ->
            IF b.op = "ResBottleNeckBlock"
            THEN BottleNeckIdentityMap(b, t)
            ELSE PreActIdentityMap(t)

\* forward of a block: seq(x) is evaluated first, then downsample(x), then the
\* sum (F.relu keeps the shape).
BlockForward(b, t, train) ==
    LET m == RunSeq(b.seq, 1, t, train)
        s == IF m = Raised THEN NoShape ELSE ShortcutForward(b, t, train)
    IN [main |-> m, sc |-> s,
        out |-> IF m = Raised \/ s = Raised THEN Raised ELSE Add(m, s)]

\* ----------------------------------------------------------------- networks
Resnet18Seq_Narrowing ==
    <<Conv2d(3, 64, 3, 1, 1, 1),
      BatchNorm2d(64),
      ReLU,
      ResBlock(64, 64, FALSE),
      ResBlock(64, 64, FALSE),
      ResBlock(64, 128, TRUE),
      ResBlock(128, 128, FALSE),
      ResBlock(128, 64, TRUE),
      ResBlock(64, 64, FALSE),
      ResBlock(64, 512, TRUE),
      ResBlock(512, 512, FALSE),
      AdaptiveAvgPool2d>>

Resnet18Seq ==
    <<Conv2d(3, 64, 3, 1, 1, 1),
      BatchNorm2d(64),
      ReLU,
      ResBlock(64, 64, FALSE),
      ResBlock(64, 64, FALSE),
      ResBlock(64, 128, TRUE),
      ResBlock(128, 128, FALSE),
      ResBlock(128, 256, TRUE),
      ResBlock(256, 256, FALSE),
      ResBlock(256, 512, TRUE),
      ResBlock(512, 512, FALSE),
      AdaptiveAvgPool2d>>

Resnet18(cn) == [seq |-> Resnet18Seq, out |-> Linear(512, cn)]

ResBottleNecknet18Seq ==
    <<Conv2d(3, 64, 3, 1, 1, 1),
      BatchNorm2d(64),
      ReLU,
      ResBottleNeckBlock(64, 256, TRUE, 1),
      ResBottleNeckBlock(256, 256, FALSE, None),
      ResBottleNeckBlock(256, 512, TRUE, None),
      ResBottleNeckBlock(512, 512, FALSE, None),
      ResBottleNeckBlock(512, 1024, TRUE, None),
      ResBottleNeckBlock(1024, 1024, FALSE, None),
      ResBottleNeckBlock(1024, 2048, TRUE, None),
      ResBottleNeckBlock(2048, 2048, FALSE, None),
      AvgPool2d(4)>>

ResBottleNecknet18(cn) == [seq |-> ResBottleNecknet18Seq, out |-> Linear(2048, cn)]

ResBottleNecknet50Seq ==
    <<Conv2d(3, 64, 3, 1, 1, 1),
      BatchNorm2d(64),
      ReLU,
      ResBottleNeckBlock(64, 256, TRUE, 1),
      ResBottleNeckBlock(256, 256, FALSE, None),
      ResBottleNeckBlock(256, 256, FALSE, None),
      ResBottleNeckBlock(256, 512, TRUE, None),
      ResBottleNeckBlock(512, 512, FALSE, None),
      ResBottleNeckBlock(512, 512, FALSE, None),
      ResBottleNeckBlock(512, 512, FALSE, None),
      ResBottleNeckBlock(512, 1024, TRUE, None),
      ResBottleNeckBlock(1024, 1024, FALSE, None),
      ResBottleNeckBlock(1024, 1024, FALSE, None),
      ResBottleNeckBlock(1024, 1024, FALSE, None),
      ResBottleNeckBlock(1024, 1024, FALSE, None),
      ResBottleNeckBlock(1024, 1024, FALSE, None),
      ResBottleNeckBlock(1024, 2048, TRUE, None),
      ResBottleNeckBlock(2048, 2048, FALSE, None),
      ResBottleNeckBlock(2048, 2048, FALSE, None),
      AvgPool2d(4)>>

ResBottleNecknet50(cn) == [seq |-> ResBottleNecknet50Seq, out |-> Linear(2048, cn)]

PreActResNetSeq ==
    <<Conv2d(3, 64, 3, 1, 1, 1),
      ReLU,
      PreActResBlock(64, 64, FALSE),
      PreActResBlock(64, 64, FALSE),
      PreActResBlock(64, 128, TRUE),
      PreActResBlock(128, 128, FALSE),
      PreActResBlock(128, 256, TRUE),
      PreActResBlock(256, 256, FALSE),
      PreActResBlock(256, 512, TRUE),
      PreActResBlock(512, 512, FALSE),
      ReLU,
      AvgPool2d(4)>>

PreActResNet(cn) == [seq |-> PreActResNetSeq, out |-> Linear(512, cn)]

ResNextSeq ==
    <<Conv2d(3, 64, 3, 1, 1, 1),
      BatchNorm2d(64),
      ReLU,
      ResNextBlock(64, 128, 256, DefaultCardinality, TRUE, 1),
      ResNextBlock(256, 128, 256, DefaultCardinality, FALSE, None),
      ResNextBlock(256, 256, 512, DefaultCardinality, TRUE, None),
      ResNextBlock(512, 256, 512, DefaultCardinality, FALSE, None),
      ResNextBlock(512, 512, 1024, DefaultCardinality, TRUE, None),
      ResNextBlock(1024, 512, 1024, DefaultCardinality, FALSE, None),
      ResNextBlock(1024, 1024, 2048, DefaultCardinality, TRUE, None),
      ResNextBlock(2048, 1024, 2048, DefaultCardinality, FALSE, None),
      AvgPool2d(4)>>

ResNext(cn) == [seq |-> ResNextSeq, out |-> Linear(2048, cn)]

ConvNeXtSeq ==
    <<Conv2d(3, 96, 2, 2, 0, 1),
      ConvNeXtblock(96),
      ConvNeXtblock(96),
      Conv2d(96, 192, 2, 2, 0, 1),
      ConvNeXtblock(192),
      ConvNeXtblock(192),
      Conv2d(192, 384, 2, 2, 0, 1),
      ConvNeXtblock(384),
      ConvNeXtblock(384),
      ConvNeXtblock(384),
      ConvNeXtblock(384),
      ConvNeXtblock(384),
      ConvNeXtblock(384),
      Conv2d(384, 768, 2, 2, 0, 1),
      ConvNeXtblock(768),
      ConvNeXtblock(768),
      AvgPool2d(2)>>

ConvNeXt(cn) == [seq |-> ConvNeXtSeq, out |-> Linear(768, cn)]

Networks ==
    {"Resnet18", "ResBottleNecknet18", "ResBottleNecknet50", "PreActResNet",
     "ResNext", "ConvNeXt"}

Model(name, cn) ==
    CASE name = "Resnet18" -> Resnet18(cn)
      [] name = "ResBottleNecknet18" -> ResBottleNecknet18(cn)
      [] name = "ResBottleNecknet50" -> ResBottleNecknet50(cn)
      [] name = "PreActResNet" -> PreActResNet(cn)
      [] name = "ResNext" -> ResNext(cn)
      [] name = "ConvNeXt" -> ConvNeXt(cn)

Seq_ == Model(net, class_num).seq

\* ------------------------------------------- forward and extract_features
NoBlock == [op |-> "none"]

IdleBlock ==
    /\ args = NoBlock
    /\ blk = NoBlock

IdleCnb ==
    /\ channel = 0
    /\ weight = <<>>
    /\ bias = <<>>
    /\ trained = FALSE
    /\ xin = <<>>
    /\ acc = <<>>
    /\ kk = 0
    /\ hid = FALSE
    /\ yout = <<>>

\* The state after Network(class_num), with the caller's input tensor at hand.
Init ==
    /\ net \in Networks
    /\ class_num \in 1..MaxClass
    /\ entry \in {"forward", "extract_features"}
    /\ training \in BOOLEAN
    /\ x0 \in {<<n, 3, h, w>> : n \in 1..MaxBatch, h \in SizeSet, w \in SizeSet}
    /\ x = x0
    /\ pc = 1
    /\ stage = "seq"
    /\ status = "ok"
    /\ prev = NoShape
    /\ main = NoShape
    /\ sc = NoShape
    /\ IdleBlock
    /\ IdleCnb

Result(t) == IF t = Raised THEN "error" ELSE "ok"

\* self.seq applies a primitive module (convolution, normalisation, pooling).
SeqLayer ==
    /\ stage = "seq"
    /\ status = "ok"
    /\ pc <= Len(Seq_)
    /\ ~IsBlock(Seq_[pc])
    /\ LET t == LayerForward(Seq_[pc], x, training)
       IN /\ x' = t
          /\ status' = Result(t)
    /\ prev' = x
    /\ main' = NoShape
    /\ sc' = NoShape
    /\ pc' = pc + 1
    /\ stage' = IF pc = Len(Seq_) THEN "flat" ELSE "seq"
    /\ UNCHANGED <<net, class_num, entry, training, x0>>
    /\ UNCHANGED blockVars
    /\ UNCHANGED cnbVars

\* self.seq applies a residual block.
SeqBlock ==
    /\ stage = "seq"
    /\ status = "ok"
    /\ pc <= Len(Seq_)
    /\ IsBlock(Seq_[pc])
    /\ LET r == BlockForward(Seq_[pc], x, training)
       IN /\ x' = r.out
          /\ main' = r.main
          /\ sc' = r.sc
          /\ status' = Result(r.out)
    /\ prev' = x
    /\ pc' = pc + 1
    /\ stage' = IF pc = Len(Seq_) THEN "flat" ELSE "seq"
    /\ UNCHANGED <<net, class_num, entry, training, x0>>
    /\ UNCHANGED blockVars
    /\ UNCHANGED cnbVars

\* self.flat; extract_features returns its result.
Flat ==
    /\ stage = "flat"
    /\ status = "ok"
    /\ x' = FlattenForward(x)
    /\ prev' = x
    /\ main' = NoShape
    /\ sc' = NoShape
    /\ stage' = IF entry = "forward" THEN "out" ELSE "done"
    /\ UNCHANGED <<net, class_num, entry, training, x0, pc, status>>
    /\ UNCHANGED blockVars
    /\ UNCHANGED cnbVars

\* self.out; forward returns its result.
Out ==
    /\ stage = "out"
    /\ status = "ok"
    /\ LET t == LinearForward(Model(net, class_num).out, x)
       IN /\ x' = t
          /\ status' = Result(t)
    /\ prev' = x
    /\ main' = NoShape
    /\ sc' = NoShape
    /\ stage' = "done"
    /\ UNCHANGED <<net, class_num, entry, training, x0, pc>>
    /\ UNCHANGED blockVars
    /\ UNCHANGED cnbVars

Next ==
    \/ SeqLayer
    \/ SeqBlock
    \/ Flat
    \/ Out

Spec == Init /\ [][Next]_vars

\* ------------------------------------------------------------- a lone block
MaxChan == 8
MaxInner == 2
MaxCard == 2
MaxBlockSize == 2

BlockArgs ==
    [type : {"ResBlock", "PreActResBlock"}, in_channel : 1..MaxChan,
     out_channel : 1..MaxChan, inner_channel : {None}, cardinality : {None},
     is_downsample : BOOLEAN, stride : {None}]
    \cup
    \* mid_channel = out_channel // 4 is at least one channel
    [type : {"ResBottleNeckBlock"}, in_channel : 1..MaxChan,
     out_channel : 4..MaxChan, inner_channel : {None}, cardinality : {None},
     is_downsample : BOOLEAN, stride : {None, 1, 2}]
    \cup
    [type : {"ResNextBlock"}, in_channel : 1..MaxChan,
     out_channel : 1..MaxChan, inner_channel : 1..MaxInner, cardinality : 1..MaxCard,
     is_downsample : BOOLEAN, stride : {None, 1, 2}]

\* Block(...): the constructor the arguments select.
Construct(a) ==
    CASE a.type = "ResBlock" -> ResBlock(a.in_channel, a.out_channel, a.is_downsample)
      [] a.type = "ResBottleNeckBlock" ->
            ResBottleNeckBlock(a.in_channel, a.out_channel, a.is_downsample, a.stride)
      [] a.type = "PreActResBlock" ->
            PreActResBlock(a.in_channel, a.out_channel, a.is_downsample)
      [] a.type = "ResNextBlock" ->
            ResNextBlock(a.in_channel, a.inner_channel, a.out_channel, a.cardinality,
                         a.is_downsample, a.stride)

\* Before the constructor call, with a tensor of the declared in_channel at hand.
InitBlock ==
    /\ net = "none"
    /\ class_num = 0
    /\ entry = "forward"
    /\ training \in BOOLEAN
    /\ args \in BlockArgs
    /\ blk = NoBlock
    /\ x0 \in {<<n, args.in_channel, h, w>> :
                  n \in 1..MaxBatch, h \in 1..MaxBlockSize, w \in 1..MaxBlockSize}
    /\ x = x0
    /\ pc = 0
    /\ stage = "new"
    /\ status = "ok"
    /\ prev = NoShape
    /\ main = NoShape
    /\ sc = NoShape
    /\ IdleCnb

\* __init__ of the block: nn.Conv2d may reject the channel counts.
BlockInit ==
    /\ stage = "new"
    /\ IF BlockConstructs(Construct(args))
       THEN /\ blk' = Construct(args)
            /\ stage' = "built"
            /\ status' = "ok"
       ELSE /\ blk' = NoBlock
            /\ stage' = "done"
            /\ status' = "error"
    /\ UNCHANGED <<net, class_num, entry, training, x0, x, pc, prev, main, sc, args>>
    /\ UNCHANGED cnbVars

\* forward of the block on the tensor.
BlockCall ==
    /\ stage = "built"
    /\ LET r == BlockForward(blk, x, training)
       IN /\ x' = r.out
          /\ main' = r.main
          /\ sc' = r.sc
          /\ status' = Result(r.out)
    /\ prev' = x
    /\ stage' = "done"
    /\ UNCHANGED <<net, class_num, entry, training, x0, pc, args, blk>>
    /\ UNCHANGED cnbVars

NextBlock ==
    \/ BlockInit
    \/ BlockCall

SpecBlock == InitBlock /\ [][NextBlock]_vars

\* ------------------------------------------- the values of a ConvNeXtblock
\* One pixel of the tensor: point_wise2 is a 1x1 convolution, so each pixel of
\* its output is bias + weight * (the hidden activations of that pixel).
\* Values are finite reals, sampled on the integers -MaxVal..MaxVal.
MaxCnbChannel == 2
MaxVal == 1
Vals == (-MaxVal)..MaxVal

\* nn.Conv2d(channel * 4, channel, kernel_size=1) as the library initialises
\* it: some tensor of the right shape (here: any constant one).
DefaultConv2dInit(ch) ==
    {[weight |-> [c \in 1..ch |-> [k \in 1..(ch * Expansion) |-> v]],
      bias |-> [c \in 1..ch |-> v]] : v \in Vals}

\* a convolution constructed with bias=False has no bias tensor
NoBias == <<>>

Zeros_Skipped(tensor) == tensor

\* nn.init.zeros_
Zeros_(tensor) == [i \in DOMAIN tensor |-> 0]

\* what __init__ leaves in point_wise2: weight and bias zeroed.
PointWise2Init(p) ==
    [weight |-> [c \in DOMAIN p.weight |-> Zeros_(p.weight[c])],
     bias |-> IF p.bias # NoBias THEN Zeros_(p.bias) ELSE p.bias]

\* The state after ConvNeXtblock(channel).
InitCnb ==
    /\ net = "none"
    /\ class_num = 0
    /\ entry = "forward"
    /\ training = TRUE
    /\ x0 = NoShape
    /\ x = NoShape
    /\ pc = 0
    /\ stage = "cnb_idle"
    /\ status = "ok"
    /\ prev = NoShape
    /\ main = NoShape
    /\ sc = NoShape
    /\ IdleBlock
    /\ channel \in 1..MaxCnbChannel
    /\ \E p \in DefaultConv2dInit(channel) :
           /\ weight = PointWise2Init(p).weight
           /\ bias = PointWise2Init(p).bias
    /\ trained = FALSE
    /\ xin = <<>>
    /\ acc = <<>>
    /\ kk = 0
    /\ hid = FALSE
    /\ yout = <<>>

\* The caller's first optimizer step moves the parameters of point_wise2 (here:
\* every weight by dw and every bias by db, not both zero).
CnbTrain ==
    /\ stage = "cnb_idle"
    /\ ~trained
    /\ \E dw \in Vals, db \in Vals :
          /\ dw # 0 \/ db # 0
          /\ weight' = [c \in 1..channel |->
                           [k \in 1..(channel * Expansion) |-> weight[c][k] + dw]]
          /\ bias' = [c \in 1..channel |-> bias[c] + db]
    /\ trained' = TRUE
    /\ UNCHANGED <<net, class_num, entry, training, x0, x, pc, stage, status, prev, main, sc>>
    /\ UNCHANGED blockVars
    /\ UNCHANGED <<channel, xin, acc, kk, hid, yout>>

\* forward up to self.gelu: the residual is kept, and point_wise2 starts from
\* its bias.
CnbForward ==
    /\ stage = "cnb_idle"
    /\ xin' \in [1..channel -> Vals]
    /\ acc' = bias
    /\ kk' = 0
    /\ hid' = FALSE
    /\ stage' = "cnb_pw2"
    /\ UNCHANGED <<net, class_num, entry, training, x0, x, pc, status, prev, main, sc>>
    /\ UNCHANGED blockVars
    /\ UNCHANGED <<channel, weight, bias, trained, yout>>

\* self.point_wise2 reads the next hidden activation (whatever depth_wise,
\* norm, point_wise1 and gelu made of the input) into every output channel.
CnbPointWise2 ==
    /\ stage = "cnb_pw2"
    /\ kk < channel * Expansion
    /\ \E h \in Vals :
          /\ hid' = (hid \/ h # 0)
          /\ acc' = [c \in 1..channel |-> acc[c] + weight[c][kk + 1] * h]
    /\ kk' = kk + 1
    /\ UNCHANGED <<net, class_num, entry, training, x0, x, pc, stage, status, prev, main, sc>>
    /\ UNCHANGED blockVars
    /\ UNCHANGED <<channel, weight, bias, trained, xin, yout>>

\* return x + residual
CnbReturn ==
    /\ stage = "cnb_pw2"
    /\ kk = channel * Expansion
    /\ yout' = [c \in 1..channel |-> acc[c] + xin[c]]
    /\ stage' = "cnb_done"
    /\ UNCHANGED <<net, class_num, entry, training, x0, x, pc, status, prev, main, sc>>
    /\ UNCHANGED blockVars
    /\ UNCHANGED <<channel, weight, bias, trained, xin, acc, kk, hid>>

NextCnb ==
    \/ CnbTrain
    \/ CnbForward
    \/ CnbPointWise2
    \/ CnbReturn

SpecCnb == InitCnb /\ [][NextCnb]_vars

\* =================================================================== claims
Nominal == x0[3] = NominalSize /\ x0[4] = NominalSize

\* A module of self.seq has just been applied.
Stepped == net \in Networks /\ pc > 1 /\ stage \in {"seq", "flat"}

\* The module of self.seq applied last.
Applied == Seq_[pc - 1]

\* The last module of self.seq, the pooling, has just been applied.
PoolDone == net \in Networks /\ stage = "flat"

\* self.flat has just been applied.
FlatDone ==
    /\ net \in Networks
    /\ stage = "out" \/ (stage = "done" /\ entry = "extract_features")

Computed(t) == t # NoShape /\ t # Raised

\* C1: for each network, every batch size and every class_num, forward on
\* [N,3,32,32] raises at no module and returns a tensor of shape [N, class_num].
Thm_C1 ==
    (net \in Networks /\ entry = "forward" /\ Nominal) =>
        /\ status = "ok"
        /\ stage = "done" => x = <<x0[1], class_num>>

Wit_C1 ==
    /\ net = "ResNext"
    /\ entry = "forward"
    /\ Nominal
    /\ stage = "done"
    /\ x0[1] = 2
    /\ class_num = 2
    /\ x = <<2, 2>>

\* C2: in every block of every network, for every input size that reaches the
\* block (odd ones too), the shortcut operand of the residual sum has exactly
\* the shape of the main-path operand, and the sum has that shape too.
Thm_C2 ==
    (Stepped /\ IsBlock(Applied) /\ Computed(main) /\ Computed(sc)) =>
        /\ sc = main
        /\ status = "ok"
        /\ x = main

Wit_C2 ==
    /\ Stepped
    /\ IsBlock(Applied)
    /\ Applied.downsample.kind = "_identitymap"
    /\ Applied.stride = 2
    /\ prev[3] = 17
    /\ prev[4] = 3
    /\ Computed(main)
    /\ sc = main
    /\ main[3] = 9
    /\ main[4] = 2

\* C4 as stated: in every network, for every input size the preceding modules
\* accept, a global pooling that returns, returns spatial size 1x1.
Orig_C4 ==
    (PoolDone /\ status = "ok") => (x[3] = 1 /\ x[4] = 1)

PoolKernel == Seq_[Len(Seq_)].kernel_size

\* C4 as amended: Resnet18's adaptive pooling returns 1x1 for every input size
\* the preceding modules accept; the fixed-kernel pooling of the other five
\* returns 1x1 exactly when the height and width entering it are in k..2k-1
\* (k the pooling kernel), which the 32x32 input satisfies; and whenever the
\* pooling returns 1x1 the flattened vector has the classifier's input width.
Thm_C4 ==
    /\ (PoolDone /\ net = "Resnet18") =>
          (status = "ok" /\ x = <<x0[1], 512, 1, 1>>)
    /\ (PoolDone /\ net # "Resnet18") =>
          ((status = "ok" /\ x[3] = 1 /\ x[4] = 1)
             <=> (/\ prev[3] \in PoolKernel..(2 * PoolKernel - 1)
                  /\ prev[4] \in PoolKernel..(2 * PoolKernel - 1)))
    /\ (PoolDone /\ Nominal) => (status = "ok" /\ x[3] = 1 /\ x[4] = 1)
    /\ (FlatDone /\ prev[3] = 1 /\ prev[4] = 1) =>
          (x = <<x0[1], Model(net, class_num).out.in_features>>
             /\ x[2] \in {512, 2048, 768})

Wit_C4 ==
    /\ PoolDone
    /\ net = "Resnet18"
    /\ x0[3] = 64
    /\ x0[4] = 33
    /\ prev[3] = 8
    /\ prev[4] = 5
    /\ x = <<x0[1], 512, 1, 1>>

Features(name) ==
    CASE name = "Resnet18" -> 512
      [] name = "ResBottleNecknet18" -> 2048
      [] name = "ResBottleNecknet50" -> 2048
      [] name = "PreActResNet" -> 512
      [] name = "ResNext" -> 2048
      [] name = "ConvNeXt" -> 768

\* C5: extract_features on [N,3,32,32] returns [N, F] with F = 512, 2048,
\* 2048, 512, 2048, 768 for the six networks; F is the input width of the
\* network's linear layer, and forward applies that layer to the same vector.
Thm_C5 ==
    /\ (FlatDone /\ Nominal) =>
          /\ status = "ok"
          /\ x = <<x0[1], Features(net)>>
          /\ Model(net, class_num).out.in_features = Features(net)
    /\ (net \in Networks /\ Nominal /\ entry = "forward" /\ stage = "done") =>
          prev = <<x0[1], Features(net)>>

Wit_C5 ==
    /\ net = "ConvNeXt"
    /\ entry = "extract_features"
    /\ Nominal
    /\ stage = "done"
    /\ status = "ok"
    /\ x = <<2, 768>>

Halved == 2 * x[3] = prev[3] /\ 2 * x[4] = prev[4]

Preserved == x[3] = prev[3] /\ x[4] = prev[4]

BeforePooling == Stepped /\ pc - 1 < Len(Seq_)

Flagged(l) ==
    \/ IsBlock(l) /\ l.is_downsample
    \/ (IsBlock(l) \/ l.op = "Conv2d") /\ l.stride = 2

\* C9 as stated: on a 32x32 input, a step before the pooling halves the height
\* and width if it is a block constructed with is_downsample=True, or has
\* stride 2, and leaves them unchanged otherwise.
Orig_C9 ==
    (BeforePooling /\ Nominal /\ status = "ok") =>
        IF Flagged(Applied) THEN Halved ELSE Preserved

Stride2(l) == (IsBlock(l) \/ l.op = "Conv2d") /\ l.stride = 2

\* C9 as amended: on a 32x32 input, a step before the pooling halves the
\* height and width exactly when its stride is 2 (a block whose stride
\* resolves to 2, or a stride-2 convolution); every other step, the blocks
\* constructed with is_downsample=True and stride=1 included, leaves them
\* unchanged.
Thm_C9 ==
    (BeforePooling /\ Nominal /\ status = "ok") =>
        IF Stride2(Applied) THEN Halved ELSE Preserved

Wit_C9 ==
    /\ BeforePooling
    /\ Nominal
    /\ status = "ok"
    /\ net = "ResBottleNecknet18"
    /\ IsBlock(Applied)
    /\ Applied.is_downsample
    /\ Applied.stride = 1
    /\ prev[3] = 32
    /\ x[3] = 32
    /\ x[4] = 32

\* C10: in each network the channel count after each module of the pipeline
\* is at least the count before it, from the 3 input channels to the
\* classifier's input width after the pooling.
Thm_C10 ==
    /\ net \in Networks => x0[2] = 3
    /\ (Stepped /\ status = "ok") => x[2] >= prev[2]
    /\ (PoolDone /\ status = "ok") => x[2] = Model(net, class_num).out.in_features

Wit_C10 ==
    /\ PoolDone
    /\ status = "ok"
    /\ net = "ResBottleNecknet50"
    /\ prev[2] = 2048
    /\ x[2] = 2048

\* C3 as stated: whenever the two operands of a block's residual sum differ in
\* any dimension, forward raises.
Orig_C3 ==
    (stage = "done" /\ net = "none" /\ Computed(main) /\ Computed(sc) /\ main # sc) =>
        status = "error"

IsPowerOfTwo(r) == r \in {1, 2, 4, 8, 16, 32, 64}

\* C7 as stated: a ResBottleNeckBlock with is_downsample=True whose out_channel
\* is in_channel times a power of two has a shortcut that subsamples by stride
\* and returns exactly out_channel channels.
Orig_C7 ==
    (/\ stage = "done"
     /\ args.type = "ResBottleNeckBlock"
     /\ args.is_downsample
     /\ args.out_channel % args.in_channel = 0
     /\ IsPowerOfTwo(args.out_channel \div args.in_channel)
     /\ Computed(sc)) =>
        sc = <<prev[1], args.out_channel,
               (prev[3] + blk.stride - 1) \div blk.stride,
               (prev[4] + blk.stride - 1) \div blk.stride>>

\* C8 as stated: a ResBlock or ResNextBlock has a projection shortcut whenever
\* it downsamples or in_channel differs from out_channel, the identity only
\* when the shapes match, and so a shortcut that returns out_channel channels.
Orig_C8 ==
    (/\ stage \in {"built", "done"}
     /\ args.type \in {"ResBlock", "ResNextBlock"}
     /\ blk.op # "none") =>
        /\ (args.is_downsample \/ args.in_channel # args.out_channel) =>
               blk.downsample.kind = "Sequential"
        /\ blk.downsample.kind = "Identity" => args.in_channel = args.out_channel
        /\ Computed(sc) => sc[2] = args.out_channel

AllZero(t) == \A i \in DOMAIN t : t[i] = 0

\* C6: right after construction of a ConvNeXtblock, point_wise2 has all
\* weights and its bias zero, so for every input the main path adds exactly
\* zero to the residual and the block returns its input.
Thm_C6 ==
    (channel > 0 /\ ~trained) =>
        /\ \A c \in 1..channel : AllZero(weight[c])
        /\ AllZero(bias)
        /\ stage = "cnb_pw2" => AllZero(acc)
        /\ stage = "cnb_done" => (AllZero(acc) /\ yout = xin)

Wit_C6 ==
    /\ stage = "cnb_done"
    /\ ~trained
    /\ channel = 2
    /\ hid
    /\ acc = <<0, 0>>
    /\ xin = <<1, -1>>
    /\ yout = xin
====
